---- MODULE Spec2Model ----
(***************************************************************************)
(* The crack detector: the camera hook (useCamera), the TensorFlow and     *)
(* Roboflow hooks with their services, and the detector component that     *)
(* drives the live detection loop (CrackDetector).                         *)
(*                                                                         *)
(* One action is one event-loop task: a click handler, the settling of a   *)
(* promise, or a display-refresh tick.  React commits the state updates of *)
(* a task in one render and then runs the effects whose dependencies       *)
(* changed; Commit models that render and the detection-loop effect, and   *)
(* it closes every action.                                                 *)
(*                                                                         *)
(* Confidences and probabilities are percentages (0..100).                 *)
(***************************************************************************)
EXTENDS Integers, FiniteSets, Sequences, TLC

\* ---------------------------------------------------------------- bounds
MaxLoops   == 2   \* detection-loop instances alive at once (current + orphaned)
MaxCalls   == 2   \* predict calls dispatched in one behaviour
MaxStarts  == 2   \* startCamera calls (getUserMedia requests) in one behaviour

\* ------------------------------------------------------------- constants
Threshold == 50   \* CrackDetector threshold state, default 0.5

NULL == "null"                        \* null, where the values are strings
Null == <<>>                          \* null, where the values are records
AIs == {"tensorflow", "roboflow"}
ModelUrls == {"good", "bad"}          \* a URL that can load, one that cannot
ErrorNames == {"NotAllowedError", "OtherError"}   \* a name startCamera tests for, one it does not
DeviceCounts == {0, 1, 2}             \* devices.length: none, one, more than one
Probabilities == {30, 90}             \* outputs of the model's forward pass
LoopIds == 1..MaxLoops
\* The Roboflow inputs <<API key, model endpoint>>: complete, or one left empty.
RoboflowFields == {<<"key", "endpoint">>, <<"", "endpoint">>, <<"key", "">>}

\* ------------------------------------------------------------ arithmetic
RECURSIVE Gcd(_, _)
Gcd(a, b) == IF b = 0 THEN a ELSE Gcd(b, a % b)

\* A non-negative rational <<n, d>> in lowest terms (JavaScript numbers,
\* without the rounding of floating point).
Rat(n, d) == LET g == Gcd(n, d) IN <<n \div g, d \div g>>
RatZero == <<0, 1>>
RatMulInt(r, k) == Rat(r[1] * k, r[2])
RatAddInt(r, k) == Rat(r[1] + k * r[2], r[2])
RatDivInt(r, k) == Rat(r[1], r[2] * k)

VARIABLES
    \* CrackDetector component state
    selectedAI,     \* "tensorflow" | "roboflow"
    prediction,     \* Null (<<>>) or <<a CrackPrediction>>
    isDetecting,
    isPaused,
    stats,          \* totalDetections, cracksDetected, avgConfidence, lastDetection
    modelUrl,       \* "" or a model URL
    roboflowApiKey, \* "" or a key
    roboflowEndpoint,
    \* useTensorFlow + TensorFlowService
    tf,             \* isLoaded, isLoading (hook); model, svcLoading, config, inflight (service)
    \* useRoboflow + RoboflowService
    rf,             \* isConfigured (hook); config (service)
    \* useCamera
    isActive,
    cameraError,    \* NULL or the name of the error
    streamRef,      \* 0 (null) or a stream
    srcObject,      \* videoRef.current.srcObject: 0 (null) or a stream
    videoMounted,   \* videoRef.current is an element (the <video> is rendered)
    devices,        \* devices.length
    enumPending,    \* the getDevices call of the mount effect has not settled
    requests,       \* startCamera calls awaiting getUserMedia
    started,        \* number of startCamera calls so far; names requests and streams
    live,           \* streams acquired whose tracks have not been stopped
    \* the detection-loop effect
    loops,          \* the runDetection closures that are alive
    \* history, read only by properties
    dispatched,     \* number of predict calls dispatched by the loop
    session         \* number of times the capture session was stopped

VARIABLES
    \* useRoboflow beyond rf, and the detectCracks call in progress
    rfError,        \* the hook's error: NULL or the message
    rfIsDetecting,  \* the hook's isDetecting
    rfCall,         \* the call: where it awaits, and the POSTs it has made
    rfOutcome       \* Null or <<how the last call settled for its caller>>

roboflowVars == <<rfError, rfIsDetecting, rfCall, rfOutcome>>

VARIABLES
    \* TensorFlowService.predict
    configThreshold, \* this.config.threshold, in percent
    numTensors,      \* tf.memory().numTensors: tensors created and not disposed
    tfCall,          \* the predict call: where it awaits, numTensors when it began
    tfOutcome        \* Null or <<how the last predict call settled>>

tensorVars == <<configThreshold, numTensors, tfCall, tfOutcome>>

VARIABLES
    \* CanvasOverlay
    detections,     \* the detections prop: the set of boxes to draw
    overlayActive,  \* the isActive prop
    animations,     \* the animate loops alive, in the order their frames were requested
    overlayCanvas   \* the boxes on the canvas

overlayVars == <<detections, overlayActive, animations, overlayCanvas>>

VARIABLES
    \* RoboflowPhotoUpload
    selectedImage,   \* 0 (null) or a file
    imagePreview,    \* 0 (null) or the data URL of a file
    detectionResult, \* Null or <<the result stored>>
    isAnalyzing,
    reading,         \* files a FileReader is reading
    analysis,        \* Null or <<the onDetect call analyzeImage awaits>>
    drawing,         \* Null or <<the image drawSegmentationMasks waits to load>>
    canvasMounted,   \* canvasRef.current is an element (the <canvas> is rendered)
    resultCanvas     \* what is drawn on the canvas: "blank", "boxes", "banner"

uploadVars == <<selectedImage, imagePreview, detectionResult, isAnalyzing, reading,
                analysis, drawing, canvasMounted, resultCanvas>>

VARIABLES
    \* the results runDetection has applied, in the order setStats ran
    applied

statsVars == <<applied>>

VARIABLES
    \* TeachableMachineService
    tmIsLoading, \* the service's isLoading flag
    tmModel,     \* Null (model is null) or <<the URLs the model was loaded from>>
    tmCall,      \* Null or <<the loadModel call awaiting tmImage.load>>
    tmOutcome    \* Null or <<how the loadModel call settled last did>>

teachableVars == <<tmIsLoading, tmModel, tmCall, tmOutcome>>

VARIABLES
    \* what the detector shows of a model load
    isConfiguring, \* the TensorFlow configuration panel is open
    loadToast,     \* NULL or the toast the last loadModel caller showed
    loadCaller,    \* NULL or the caller awaiting the load in flight: "effect", "save"
    loadOutcome    \* NULL or how service.loadModel settled last: "resolved", "rejected"

loadUiVars == <<isConfiguring, loadToast, loadCaller, loadOutcome>>

VARIABLES
    \* ChatInterface
    messages,        \* the messages, each [id, content, role]
    modelConfig,     \* Null or <<the configuration saved in ModelSetup>>
    chatIsLoading,   \* isLoading
    typingMessageId, \* 0 (null) or the id of the assistant message being typed
    chatPending,     \* ids of the assistant messages whose callAI has not settled
    nextId,          \* ids handed out so far
    exported         \* Null or <<the document exportChat wrote last>>

chatVars == <<messages, modelConfig, chatIsLoading, typingMessageId, chatPending,
              nextId, exported>>

\* The hook and the service after construction: no call was made.
RoboflowInit ==
    /\ rfError = NULL
    /\ rfIsDetecting = FALSE
    /\ rfCall = [st |-> "idle", posts |-> 0]
    /\ rfOutcome = Null

\* The service after construction, with threshold t in the config loadModel
\* will store: no tensor is alive and no predict call was made.
TensorInit(t) ==
    /\ configThreshold = t
    /\ numTensors = 0
    /\ tfCall = [st |-> "idle", before |-> 0]
    /\ tfOutcome = Null

\* CanvasOverlay after its first render with no detections and isActive
\* false: the effect returned at its guard.
OverlayInit ==
    /\ detections = {}
    /\ overlayActive = FALSE
    /\ animations = <<>>
    /\ overlayCanvas = {}

\* RoboflowPhotoUpload after its first render: nothing selected.
UploadInit ==
    /\ selectedImage = 0
    /\ imagePreview = 0
    /\ detectionResult = Null
    /\ isAnalyzing = FALSE
    /\ reading = {}
    /\ analysis = Null
    /\ drawing = Null
    /\ canvasMounted = FALSE
    /\ resultCanvas = "blank"

\* No result was applied yet.
StatsInit == applied = <<>>

\* TeachableMachineService after construction: no model, not loading.
TeachableInit ==
    /\ tmIsLoading = FALSE
    /\ tmModel = Null
    /\ tmCall = Null
    /\ tmOutcome = Null

\* At mount the panel is closed and nothing was loaded.
LoadUiInit ==
    /\ isConfiguring = FALSE
    /\ loadToast = NULL
    /\ loadCaller = NULL
    /\ loadOutcome = NULL

\* ChatInterface after its first render: no message, no configuration.
ChatInit ==
    /\ messages = <<>>
    /\ modelConfig = Null
    /\ chatIsLoading = FALSE
    /\ typingMessageId = 0
    /\ chatPending = {}
    /\ nextId = 0
    /\ exported = Null

\* Everything outside the CrackDetector component, its hooks' readiness and the camera.
serviceVars == <<roboflowVars, tensorVars, overlayVars, uploadVars, statsVars, teachableVars, loadUiVars, chatVars>>

\* What the actions of one of them leave alone among the others.
besidesRoboflow == <<tensorVars, overlayVars, uploadVars, statsVars, teachableVars, loadUiVars, chatVars>>
besidesTensor == <<roboflowVars, overlayVars, uploadVars, statsVars, teachableVars, loadUiVars, chatVars>>
besidesOverlay == <<roboflowVars, tensorVars, uploadVars, statsVars, teachableVars, loadUiVars, chatVars>>
besidesUpload == <<roboflowVars, tensorVars, overlayVars, statsVars, teachableVars, loadUiVars, chatVars>>
besidesStats == <<roboflowVars, tensorVars, overlayVars, uploadVars, teachableVars, loadUiVars, chatVars>>
besidesTeachable == <<roboflowVars, tensorVars, overlayVars, uploadVars, statsVars, loadUiVars, chatVars>>
besidesLoadUi == <<roboflowVars, tensorVars, overlayVars, uploadVars, statsVars, teachableVars, chatVars>>
besidesChat == <<roboflowVars, tensorVars, overlayVars, uploadVars, statsVars, teachableVars, loadUiVars>>

ServicesInit == RoboflowInit /\ TensorInit(Threshold) /\ OverlayInit /\ UploadInit /\ StatsInit /\ TeachableInit /\ LoadUiInit /\ ChatInit

vars == <<selectedAI, prediction, isDetecting, isPaused, stats, modelUrl,
          roboflowApiKey, roboflowEndpoint, tf, rf, isActive, cameraError,
          streamRef, srcObject, videoMounted, devices, enumPending, requests,
          started, live, loops, dispatched, session, serviceVars>>

detectorVars == <<selectedAI, prediction, isDetecting, isPaused, stats>>
configVars   == <<modelUrl, roboflowApiKey, roboflowEndpoint>>
cameraVars   == <<isActive, cameraError, streamRef, srcObject, devices,
                  enumPending, requests, started, live>>
historyVars  == <<dispatched, session>>

ZeroStats == [totalDetections |-> 0, cracksDetected |-> 0,
              avgConfidence |-> RatZero, lastDetection |-> ""]

NoLoop == [st |-> "none", cur |-> FALSE, det |-> FALSE, ses |-> 0, sel |-> NULL]

TfInit == [isLoaded |-> FALSE, isLoading |-> FALSE, model |-> NULL,
           svcLoading |-> FALSE, config |-> NULL, inflight |-> NULL]

RfInit == [isConfigured |-> FALSE, config |-> Null]

\* ------------------------------------------------- TensorFlowService.predict
\* The label and confidence predict derives from the probability p under the
\* configured threshold t; a threshold of 0 is falsy and falls back to 0.5.
ServicePredict(p, t) ==
    LET threshold == IF t = 0 THEN 50 ELSE t
        classification == IF p > threshold THEN "Crack" ELSE "No Crack"
    IN  [probability |-> p,
         classification |-> classification,
         confidence |-> IF classification = "Crack" THEN p ELSE 100 - p]

\* An updater that averages the previous average with the new confidence.
UpdateStatsHalving(prev, newPrediction) ==
    [totalDetections |-> prev.totalDetections + 1,
     cracksDetected  |-> prev.cracksDetected
                           + (IF newPrediction.classification = "Crack" THEN 1 ELSE 0),
     avgConfidence   |-> RatDivInt(RatAddInt(prev.avgConfidence,
                                             newPrediction.confidence), 2),
     lastDetection   |-> newPrediction.classification]

\* The setStats updater of runDetection.
UpdateStats(prev, newPrediction) ==
    [totalDetections |-> prev.totalDetections + 1,
     cracksDetected  |-> prev.cracksDetected
                           + (IF newPrediction.classification = "Crack" THEN 1 ELSE 0),
     avgConfidence   |-> RatDivInt(RatAddInt(RatMulInt(prev.avgConfidence,
                                                       prev.totalDetections),
                                             newPrediction.confidence),
                                   prev.totalDetections + 1),
     lastDetection   |-> newPrediction.classification]

\* --------------------------------------------- useTensorFlow.loadModel (call)
\* The hook sets isLoading and calls the service.  A service that is already
\* loading rejects at once: the hook catches, and its finally clears isLoading
\* while the first load is still in progress.  Otherwise the service stores the
\* config and awaits tf.loadLayersModel.
LoadModel(t, url) ==
    IF t.svcLoading
    THEN [t EXCEPT !.isLoading = FALSE]
    ELSE [t EXCEPT !.isLoading = TRUE, !.svcLoading = TRUE,
                   !.config = url, !.inflight = url]

\* What the caller of the hook's loadModel does when its await returns.  The
\* hook catches every rejection of the service and does not rethrow, so the
\* await always resolves: the caller shows its success toast, and
\* handleConfigSave closes the panel first.
AfterLoadModel(caller) ==
    /\ loadToast' = "success"
    /\ isConfiguring' = IF caller = "save" THEN FALSE ELSE isConfiguring

\* The caller calls loadModel.  A service that is loading rejects at once
\* and the caller goes on; otherwise the caller awaits the load.
CallLoadModel(caller) ==
    IF tf.svcLoading
    THEN /\ loadOutcome' = "rejected"
         /\ AfterLoadModel(caller)
         /\ UNCHANGED loadCaller
    ELSE /\ loadCaller' = caller
         /\ UNCHANGED <<isConfiguring, loadToast, loadOutcome>>

\* RoboflowService.isConfigured on a stored config.
ServiceIsConfigured(config) ==
    config # Null /\ config[1].apiKey # "" /\ config[1].modelEndpoint # ""

\* useRoboflow.configure: setConfig never throws, so the catch is dead.
Configure(r, key, endpoint) ==
    LET config == <<[apiKey |-> key, modelEndpoint |-> endpoint]>>
    IN  [isConfigured |-> ServiceIsConfigured(config), config |-> config]

\* isCurrentModelReady of the detector, on the given state.
IsCurrentModelReady(ai, t, r) ==
    IF ai = "tensorflow" THEN t.isLoaded
    ELSE IF ai = "roboflow" THEN r.isConfigured
    ELSE FALSE

\* ------------------------------------------------- the detection-loop effect
\* Dependencies of the effect (predict changes identity exactly when isLoaded
\* does; videoRef never does).
Deps == <<isActive, isDetecting, isPaused, tf.isLoaded, selectedAI>>

FreeIds(ls) == {l \in LoopIds : ls[l].st = "none"}

\* The cleanup of the effect: cancelAnimationFrame(animationFrame).  The id is
\* that of the last frame the loop requested.  If that frame is still pending
\* the loop ends.  If it has fired and runDetection is awaiting predict, the
\* cancel does nothing: the closure goes on when predict settles and requests
\* frames nobody holds the id of.
Cleanup(ls) ==
    [l \in LoopIds |->
        IF ~ls[l].cur THEN ls[l]
        ELSE IF ls[l].st = "scheduled" THEN NoLoop
        ELSE [ls[l] EXCEPT !.cur = FALSE]]

\* The body of the effect past its guard: a new closure over the isDetecting of
\* this render, with one frame requested.
StartLoop(ls, det) ==
    LET l == CHOOSE x \in FreeIds(ls) : \A y \in FreeIds(ls) : x <= y
    IN  [ls EXCEPT ![l] = [st |-> "scheduled", cur |-> TRUE, det |-> det,
                           ses |-> 0, sel |-> NULL]]

LoopEffect(ls, active, paused, ai, loaded, det) ==
    IF ~active \/ paused \/ ai # "tensorflow" \/ ~loaded
    THEN Cleanup(ls)
    ELSE StartLoop(Cleanup(ls), det)

\* The render that follows a task and the effects it triggers: the <video>
\* element exists exactly when isCameraActive, and the loop effect reruns when
\* a dependency changed.  ls is loops as the task left it.
Commit(ls) ==
    /\ videoMounted' = isActive'
    /\ IF Deps' = Deps
       THEN loops' = ls
       ELSE /\ (isActive' /\ ~isPaused' /\ selectedAI' = "tensorflow" /\ tf'.isLoaded)
                  => FreeIds(Cleanup(ls)) # {}
            /\ loops' = LoopEffect(ls, isActive', isPaused', selectedAI',
                                   tf'.isLoaded, isDetecting')

\* ------------------------------------------------------------------- Init
\* The CrackDetector component, its readiness hooks and the camera after the
\* first render.
DetectorInit ==
    /\ selectedAI = "tensorflow"
    /\ prediction = Null
    /\ isDetecting = FALSE
    /\ isPaused = FALSE
    /\ stats = ZeroStats
    /\ modelUrl = ""
    /\ roboflowApiKey = "key"
    /\ roboflowEndpoint = "endpoint"
    /\ tf = TfInit
    /\ rf = RfInit
    /\ isActive = FALSE
    /\ cameraError = NULL
    /\ streamRef = 0
    /\ srcObject = 0
    /\ videoMounted = FALSE
    /\ devices = 0
    /\ enumPending = TRUE
    /\ requests = {}
    /\ started = 0
    /\ live = {}
    /\ loops = [l \in LoopIds |-> NoLoop]
    /\ dispatched = 0
    /\ session = 0

\* The state after the first render of CrackDetector.
Init == DetectorInit /\ ServicesInit

\* ------------------------------------------------ configuration of a backend
\* The Tabs onValueChange: setSelectedAI, with no condition on the session.
\* The effects that depend on selectedAI follow: the model-load effect and the
\* Roboflow configure effect.
SelectAI(value) ==
    /\ UNCHANGED besidesLoadUi
    /\ value # selectedAI
    /\ selectedAI' = value
    /\ tf' = IF modelUrl # "" /\ value = "tensorflow" THEN LoadModel(tf, modelUrl) ELSE tf
    /\ IF modelUrl # "" /\ value = "tensorflow" THEN CallLoadModel("effect")
       ELSE UNCHANGED loadUiVars
    /\ rf' = IF value = "roboflow" /\ roboflowApiKey # "" /\ roboflowEndpoint # ""
             THEN Configure(rf, roboflowApiKey, roboflowEndpoint)
             ELSE rf
    /\ UNCHANGED <<prediction, isDetecting, isPaused, stats, configVars, cameraVars,
                   historyVars>>
    /\ Commit(loops)

\* The model URL input: setModelUrl, then the model-load effect (initializeModel).
EditModelUrl(url) ==
    /\ UNCHANGED besidesLoadUi
    /\ selectedAI = "tensorflow"
    /\ url # modelUrl
    /\ modelUrl' = url
    /\ tf' = IF url # "" THEN LoadModel(tf, url) ELSE tf
    /\ IF url # "" THEN CallLoadModel("effect") ELSE UNCHANGED loadUiVars
    /\ UNCHANGED <<detectorVars, roboflowApiKey, roboflowEndpoint, rf, cameraVars,
                   historyVars>>
    /\ Commit(loops)

\* handleConfigSave: the button is in the open panel, and disabled while the
\* hook reports isLoading.
HandleConfigSave ==
    /\ UNCHANGED besidesLoadUi
    /\ selectedAI = "tensorflow"
    /\ isConfiguring
    /\ ~tf.isLoading
    /\ modelUrl # ""
    /\ tf' = LoadModel(tf, modelUrl)
    /\ CallLoadModel("save")
    /\ UNCHANGED <<detectorVars, configVars, rf, cameraVars, historyVars>>
    /\ Commit(loops)

\* tf.loadLayersModel settles.  On success the service keeps the model and the
\* hook sets isLoaded; on failure the hook records the error.  Both finally
\* blocks clear the loading flags.
LoadModelSettle(ok) ==
    /\ UNCHANGED besidesLoadUi
    /\ tf.inflight # NULL
    /\ ok => tf.inflight = "good"
    /\ loadOutcome' = IF ok THEN "resolved" ELSE "rejected"
    /\ AfterLoadModel(loadCaller)
    /\ loadCaller' = NULL
    /\ tf' = IF ok
             THEN [tf EXCEPT !.model = tf.inflight, !.isLoaded = TRUE,
                             !.isLoading = FALSE, !.svcLoading = FALSE,
                             !.inflight = NULL]
             ELSE [tf EXCEPT !.isLoading = FALSE, !.svcLoading = FALSE,
                             !.inflight = NULL]
    /\ UNCHANGED <<detectorVars, configVars, rf, cameraVars, historyVars>>
    /\ Commit(loops)

\* The trigger of the configuration panel: onOpenChange={setIsConfiguring}.
ToggleConfiguring ==
    /\ selectedAI = "tensorflow"
    /\ isConfiguring' = ~isConfiguring
    /\ UNCHANGED <<loadToast, loadCaller, loadOutcome, besidesLoadUi>>
    /\ UNCHANGED <<detectorVars, configVars, tf, rf, cameraVars, videoMounted, loops,
                   historyVars>>

\* The Roboflow inputs: the setters, then the configure effect, which runs
\* only while Roboflow is selected and both fields are non-empty.
EditRoboflow(key, endpoint) ==
    /\ UNCHANGED serviceVars
    /\ selectedAI = "roboflow"
    /\ <<key, endpoint>> # <<roboflowApiKey, roboflowEndpoint>>
    /\ roboflowApiKey' = key
    /\ roboflowEndpoint' = endpoint
    /\ rf' = IF key # "" /\ endpoint # "" THEN Configure(rf, key, endpoint) ELSE rf
    /\ UNCHANGED <<detectorVars, modelUrl, tf, cameraVars, historyVars>>
    /\ Commit(loops)

\* ------------------------------------------------------------------ useCamera
\* The getDevices call of the mount effect settles with n video inputs.
GetDevicesSettle(n) ==
    /\ UNCHANGED serviceVars
    /\ enumPending
    /\ enumPending' = FALSE
    /\ devices' = n
    /\ UNCHANGED <<detectorVars, configVars, tf, rf, isActive, cameraError, streamRef,
                   srcObject, requests, started, live, historyVars>>
    /\ Commit(loops)

\* startCamera up to its await: setError(null) and the getUserMedia request.
\* detect tells whether the caller's continuation will set isDetecting.
StartCamera(detect) ==
    /\ started < MaxStarts
    /\ started' = started + 1
    /\ cameraError' = NULL
    /\ requests' = requests \cup {[id |-> started + 1, detect |-> detect]}

\* stopCamera: stop the tracks of the stream streamRef holds, clear the video
\* element's srcObject when there is an element, setIsActive(false).
StopCamera ==
    /\ live' = IF streamRef # 0 THEN live \ {streamRef} ELSE live
    /\ streamRef' = 0
    /\ srcObject' = IF videoMounted THEN 0 ELSE srcObject
    /\ isActive' = FALSE

\* handleStartCamera up to its await.  The Start Camera button is rendered
\* while the camera is inactive and is disabled on a camera error or while
\* the selected backend is not ready.
HandleStartCamera ==
    /\ UNCHANGED serviceVars
    /\ ~isActive
    /\ cameraError = NULL
    /\ IsCurrentModelReady(selectedAI, tf, rf)
    /\ StartCamera(selectedAI = "tensorflow")
    /\ UNCHANGED <<detectorVars, configVars, tf, rf, isActive, streamRef, srcObject,
                   devices, enumPending, live, historyVars>>
    /\ Commit(loops)

\* The device select (rendered when more than one device is listed) calls
\* switchCamera: stopCamera if active, then startCamera(deviceId).
SwitchCamera ==
    /\ UNCHANGED serviceVars
    /\ devices > 1
    /\ IF isActive
       THEN StopCamera /\ session' = session + 1
       ELSE UNCHANGED <<live, streamRef, srcObject, isActive, session>>
    /\ StartCamera(FALSE)
    /\ UNCHANGED <<detectorVars, configVars, tf, rf, devices, enumPending,
                   dispatched>>
    /\ Commit(loops)

\* The continuation of handleStartCamera after `await startCamera()`:
\* startCamera catches its own errors, so the continuation runs on success and
\* on failure alike, with the selectedAI of the render that was clicked
\* (switchCamera has no continuation).
StartContinuation(r) ==
    isDetecting' = IF r.detect THEN TRUE ELSE isDetecting

\* getUserMedia resolves with a stream.  The stream is attached and recorded
\* in streamRef only if the video element exists at this moment; getDevices
\* follows, then the caller's continuation.
GetUserMediaResolve(r, n) ==
    /\ UNCHANGED serviceVars
    /\ r \in requests
    /\ requests' = requests \ {r}
    /\ live' = live \cup {r.id}
    /\ IF videoMounted
       THEN srcObject' = r.id /\ streamRef' = r.id
       ELSE UNCHANGED <<srcObject, streamRef>>
    /\ devices' = n
    /\ StartContinuation(r)
    /\ UNCHANGED <<selectedAI, prediction, isPaused, stats, configVars, tf, rf, isActive,
                   cameraError, enumPending, started, historyVars>>
    /\ Commit(loops)

\* getUserMedia rejects: the catch records the error's name (the message
\* depends on it) and returns normally to the caller.
GetUserMediaReject(r, name) ==
    /\ UNCHANGED serviceVars
    /\ r \in requests
    /\ requests' = requests \ {r}
    /\ cameraError' = name
    /\ StartContinuation(r)
    /\ UNCHANGED <<selectedAI, prediction, isPaused, stats, configVars, tf, rf, isActive,
                   streamRef, srcObject, devices, enumPending, started, live,
                   historyVars>>
    /\ Commit(loops)

\* The onloadedmetadata handler startCamera installs on the video element it
\* attached the stream to: play, setIsActive(true).
LoadedMetadata ==
    /\ UNCHANGED serviceVars
    /\ videoMounted
    /\ srcObject # 0
    /\ ~isActive
    /\ isActive' = TRUE
    /\ UNCHANGED <<detectorVars, configVars, tf, rf, cameraError, streamRef, srcObject,
                   devices, enumPending, requests, started, live, historyVars>>
    /\ Commit(loops)

\* ------------------------------------------------------------ the live session
\* handleStopCamera (the Stop Camera button is rendered while the camera is
\* active).  The statistics are not touched.
HandleStopCamera ==
    /\ UNCHANGED serviceVars
    /\ isActive
    /\ StopCamera
    /\ isDetecting' = FALSE
    /\ prediction' = Null
    /\ isPaused' = FALSE
    /\ session' = session + 1
    /\ UNCHANGED <<selectedAI, stats, configVars, tf, rf, cameraError, devices,
                   enumPending, requests, started, dispatched>>
    /\ Commit(loops)

\* handlePauseResume (the button is rendered while the camera is active and
\* TensorFlow is selected).
HandlePauseResume ==
    /\ UNCHANGED serviceVars
    /\ isActive
    /\ selectedAI = "tensorflow"
    /\ isPaused' = ~isPaused
    /\ UNCHANGED <<selectedAI, prediction, isDetecting, stats, configVars, tf, rf,
                   cameraVars, historyVars>>
    /\ Commit(loops)

\* A frame requested by loop l fires: runDetection up to its await.  It reads
\* the video element of the moment and the isDetecting of its closure; when the
\* test fails it requests the next frame and nothing else changes.
RunDetection(l) ==
    /\ UNCHANGED serviceVars
    /\ loops[l].st = "scheduled"
    /\ IF videoMounted /\ loops[l].det
       THEN /\ dispatched < MaxCalls
            /\ dispatched' = dispatched + 1
            /\ loops' = [loops EXCEPT ![l].st = "awaiting", ![l].ses = session,
                                      ![l].sel = selectedAI]
       ELSE UNCHANGED <<dispatched, loops>>
    /\ UNCHANGED <<detectorVars, configVars, tf, rf, cameraVars, videoMounted,
                   session>>

\* The predict call of loop l resolves with probability p: setPrediction,
\* setStats, and the next frame is requested.
PredictResolve(l, p) ==
    /\ UNCHANGED besidesStats
    /\ loops[l].st = "awaiting"
    /\ LET newPrediction == ServicePredict(p, Threshold)
       IN  /\ prediction' = <<newPrediction>>
           /\ stats' = UpdateStats(stats, newPrediction)
           /\ applied' = Append(applied, newPrediction)
    /\ UNCHANGED <<selectedAI, isDetecting, isPaused, configVars, tf, rf, cameraVars,
                   historyVars>>
    /\ Commit([loops EXCEPT ![l].st = "scheduled", ![l].ses = 0, ![l].sel = NULL])

\* A loop whose catch does not request the next frame: the rejection ends it.
PredictRejectStops(l) ==
    /\ UNCHANGED serviceVars
    /\ loops[l].st = "awaiting"
    /\ UNCHANGED <<detectorVars, configVars, tf, rf, cameraVars, historyVars>>
    /\ Commit([loops EXCEPT ![l] = NoLoop])

\* The predict call of loop l rejects: the catch logs, the next frame is
\* requested.
PredictReject(l) ==
    /\ UNCHANGED serviceVars
    /\ loops[l].st = "awaiting"
    /\ UNCHANGED <<detectorVars, configVars, tf, rf, cameraVars, historyVars>>
    /\ Commit([loops EXCEPT ![l].st = "scheduled", ![l].ses = 0, ![l].sel = NULL])

\* ------------------------------------------------------------ specifications
ConfigNext ==
    \/ \E value \in AIs : SelectAI(value)
    \/ \E url \in ModelUrls \cup {""} : EditModelUrl(url)
    \/ ToggleConfiguring
    \/ HandleConfigSave
    \/ \E ok \in BOOLEAN : LoadModelSettle(ok)
    \/ \E fields \in RoboflowFields : EditRoboflow(fields[1], fields[2])

CameraNext ==
    \/ HandleStartCamera
    \/ SwitchCamera
    \/ \E r \in requests, n \in DeviceCounts \ {0} : GetUserMediaResolve(r, n)
    \/ \E r \in requests, name \in ErrorNames : GetUserMediaReject(r, name)

LiveNext ==
    \/ HandleStopCamera
    \/ HandlePauseResume
    \/ \E l \in LoopIds : RunDetection(l)
    \/ \E l \in LoopIds, p \in Probabilities : PredictResolve(l, p)
    \/ \E l \in LoopIds : PredictReject(l)

\* The detector from its first render.  No step of it makes the camera active
\* (C8): LoadedMetadata and the actions of LiveNext are enabled in no state it
\* reaches, and are not disjuncts of Next.
Next ==
    \/ ConfigNext
    \/ \E n \in DeviceCounts : GetDevicesSettle(n)
    \/ CameraNext

Spec == Init /\ [][Next]_vars

\* A live session: the state the success path of startCamera establishes when
\* the video element exists as getUserMedia resolves (stream attached and held
\* in streamRef, onloadedmetadata has run), reached from Start Camera with the
\* TensorFlow model loaded; handleStartCamera has set isDetecting and the loop
\* effect has requested its first frame.
SessionInit ==
    /\ selectedAI = "tensorflow"
    /\ prediction = Null
    /\ isDetecting = TRUE
    /\ isPaused = FALSE
    /\ stats = ZeroStats
    /\ modelUrl = "good"
    /\ roboflowApiKey = "key"
    /\ roboflowEndpoint = "endpoint"
    /\ tf = [isLoaded |-> TRUE, isLoading |-> FALSE, model |-> "good",
             svcLoading |-> FALSE, config |-> "good", inflight |-> NULL]
    /\ rf = RfInit
    /\ isActive = TRUE
    /\ cameraError = NULL
    /\ streamRef = 1
    /\ srcObject = 1
    /\ videoMounted = TRUE
    /\ devices \in DeviceCounts \ {0}
    /\ enumPending = FALSE
    /\ requests = {}
    /\ started = 1
    /\ live = {1}
    /\ loops = StartLoop([l \in LoopIds |-> NoLoop], TRUE)
    /\ dispatched = 0
    /\ session = 0
    /\ RoboflowInit /\ TensorInit(Threshold) /\ OverlayInit /\ UploadInit
    /\ StatsInit /\ TeachableInit /\ ChatInit
    /\ isConfiguring = FALSE
    /\ loadToast = "success"
    /\ loadCaller = NULL
    /\ loadOutcome = "resolved"

\* The detector in and after a live session, with the configuration inputs
\* left as they are: the backend selection and what it triggers, the camera,
\* the loop.
SessionNext ==
    \/ \E value \in AIs : SelectAI(value)
    \/ \E ok \in BOOLEAN : LoadModelSettle(ok)
    \/ CameraNext
    \/ LiveNext

SessionSpec == SessionInit /\ [][SessionNext]_vars

\* ------------------------------------------------------------------ properties
InFlight == {l \in LoopIds : loops[l].st = "awaiting"}

\* The step is the settling of the predict call loop l awaits.
Settles(l) == loops[l].st = "awaiting" /\ loops'[l].st = "scheduled"

C6_StartRequiresReady ==
    [][started' > started => IsCurrentModelReady(selectedAI, tf, rf)]_vars

\* C7: when getUserMedia rejects, the camera stays inactive, the error is
\* recorded under its name, and the detector does not enter the detecting
\* state.
C7_FailedStartNotDetecting ==
    [][\A r \in requests, name \in ErrorNames :
          GetUserMediaReject(r, name)
              => /\ ~isActive'
                 /\ cameraError' = name
                 /\ ~isDetecting => ~isDetecting']_vars

\* C8: when getUserMedia resolves, the acquired stream is attached to the
\* video element and recorded in streamRef (from where onloadedmetadata makes
\* the session active), so that no acquisition leaves a live stream with the
\* session inactive.
C8_AcquiredStreamAttached ==
    [][\A r \in requests, n \in DeviceCounts :
          GetUserMediaResolve(r, n)
              => (videoMounted' /\ srcObject' = r.id /\ streamRef' = r.id)]_vars

MaxPredictions == 2   \* predictions in one detection-API response

\* Class names are sequences of characters, so that toLowerCase and includes
\* are computed and not assumed.
Crack == <<"c", "r", "a", "c", "k">>
Classes == {<<"c", "r", "a", "c", "k">>,
            <<"W", "a", "l", "l", "C", "R", "A", "C", "K">>,
            <<"c", "r", "a", "k">>,
            <<"s", "t", "a", "i", "n">>}
\* The classes above that contain "crack" when case is ignored.
CrackClasses == {<<"c", "r", "a", "c", "k">>,
                 <<"W", "a", "l", "l", "C", "R", "A", "C", "K">>}
Confidences == {40, 80}               \* confidence of a prediction, in percent
ImageKinds == {"file", "string"}      \* File | Blob, or a data URL
Predictions == [class : Classes, confidence : Confidences]
Responses == UNION {[1..k -> Predictions] : k \in 0..MaxPredictions}

\* String.prototype.toLowerCase on the letters that occur.
LowerCaseOf == [ch \in {"A", "C", "K", "R", "W"} |->
                   CASE ch = "A" -> "a" [] ch = "C" -> "c" [] ch = "K" -> "k"
                     [] ch = "R" -> "r" [] ch = "W" -> "w"]
ToLowerCase(str) ==
    [i \in 1..Len(str) |-> IF str[i] \in DOMAIN LowerCaseOf THEN LowerCaseOf[str[i]]
                           ELSE str[i]]

\* String.prototype.includes.
Includes(str, sub) ==
    \E i \in 0..(Len(str) - Len(sub)) : SubSeq(str, i + 1, i + Len(sub)) = sub

\* The filter of detectCracks, without the toLowerCase.
IsCrackCaseSensitive(p) == Includes(p.class, Crack)

\* The filter of detectCracks: prediction.class.toLowerCase().includes('crack').
IsCrackPrediction(p) == Includes(ToLowerCase(p.class), Crack)

\* Math.max over a non-empty set.
MathMax(S) == CHOOSE m \in S : \A x \in S : x <= m

\* What detectCracks returns for the predictions of a 2xx response.
DetectCracks(response) ==
    LET crackPredictions == SelectSeq(response, IsCrackPrediction)
        hasCracks == Len(crackPredictions) > 0
    IN  [hasCracks   |-> hasCracks,
         predictions |-> crackPredictions,
         confidence  |-> IF hasCracks
                         THEN MathMax({crackPredictions[i].confidence :
                                          i \in 1..Len(crackPredictions)})
                         ELSE 0,
         totalCracks |-> Len(crackPredictions)]

\* The variables of the detector other than rf.
detectorRest == <<detectorVars, configVars, tf, cameraVars, videoMounted, loops,
                  historyVars>>
roboflowRest == <<detectorRest, besidesRoboflow>>

\* How a call settled for its caller.
Rejected(message) ==
    <<[ok |-> FALSE, error |-> message, result |-> Null, response |-> <<>>]>>
Resolved(response) ==
    <<[ok |-> TRUE, error |-> NULL, result |-> <<DetectCracks(response)>>,
       response |-> response]>>

\* useRoboflow.configure, called with any config.
RfConfigure(key, endpoint) ==
    /\ rf' = Configure(rf, key, endpoint)
    /\ rfError' = NULL
    /\ UNCHANGED <<rfIsDetecting, rfCall, rfOutcome, roboflowRest>>

\* service.detectCracks rejected: the catch and the finally of the hook.
RfReject(message) ==
    /\ rfError' = message
    /\ rfIsDetecting' = FALSE
    /\ rfCall' = [rfCall EXCEPT !.st = "idle"]
    /\ rfOutcome' = Rejected(message)
    /\ UNCHANGED <<rf, roboflowRest>>

\* useRoboflow.detectCracks is called: the hook's guard, which throws before
\* the try; then the service up to its first await.  A data URL is fetched
\* first, a File goes into the POST at once.
RfDetectCracks(kind) ==
    /\ rfCall.st = "idle"
    /\ IF ~rf.isConfigured
       THEN /\ rfOutcome' = Rejected("Roboflow not configured")
            /\ rfCall' = [st |-> "idle", posts |-> 0]
            /\ UNCHANGED <<rfError, rfIsDetecting>>
       ELSE IF rf.config = Null
       THEN /\ rfOutcome' = Rejected("Roboflow configuration not set")
            /\ rfCall' = [st |-> "idle", posts |-> 0]
            /\ rfError' = "Roboflow configuration not set"
            /\ rfIsDetecting' = FALSE
       ELSE /\ rfOutcome' = Null
            /\ rfCall' = IF kind = "string" THEN [st |-> "reading", posts |-> 0]
                         ELSE [st |-> "posted", posts |-> 1]
            /\ rfError' = NULL
            /\ rfIsDetecting' = TRUE
    /\ UNCHANGED <<rf, roboflowRest>>

\* fetch(imageFile) of a data URL settles; on success the POST is built from
\* the config stored at this moment and sent.
RfImageFetched(ok) ==
    /\ rfCall.st = "reading"
    /\ IF ok
       THEN /\ rfCall' = [st |-> "posted", posts |-> rfCall.posts + 1]
            /\ UNCHANGED <<rf, rfError, rfIsDetecting, rfOutcome, roboflowRest>>
       ELSE RfReject("Failed to fetch")

\* The POST resolves with a 2xx status and the given predictions.
RfResponseOk(response) ==
    /\ rfCall.st = "posted"
    /\ rfIsDetecting' = FALSE
    /\ rfCall' = [rfCall EXCEPT !.st = "idle"]
    /\ rfOutcome' = Resolved(response)
    /\ UNCHANGED <<rf, rfError, roboflowRest>>

\* A service that posts again on a status that is not 2xx.
RfResponseNotOkRetry ==
    /\ rfCall.st = "posted"
    /\ rfCall.posts < 2
    /\ rfCall' = [rfCall EXCEPT !.posts = rfCall.posts + 1]
    /\ UNCHANGED <<rf, rfError, rfIsDetecting, rfOutcome, roboflowRest>>

\* The POST resolves with a status that is not 2xx.
RfResponseNotOk ==
    /\ rfCall.st = "posted"
    /\ RfReject("Roboflow API error")

\* The POST rejects: the transport failed.
RfTransportFailure ==
    /\ rfCall.st = "posted"
    /\ RfReject("Failed to fetch")

RoboflowNext ==
    \/ \E fields \in RoboflowFields : RfConfigure(fields[1], fields[2])
    \/ \E kind \in ImageKinds : RfDetectCracks(kind)
    \/ \E ok \in BOOLEAN : RfImageFetched(ok)
    \/ \E response \in Responses : RfResponseOk(response)
    \/ RfResponseNotOk
    \/ RfTransportFailure

\* The hook and its service under any sequence of configure and detectCracks
\* calls.
RoboflowSpec == Init /\ [][RoboflowNext]_vars

\* The positions of the response predictions whose class contains "crack".
CrackPositions(response) == {i \in DOMAIN response : response[i].class \in CrackClasses}

\* C11: whenever a call has resolved, its predictions are the response
\* predictions of a crack class, in response order; hasCracks tells whether
\* there is one, totalCracks is their number and confidence the largest of
\* their confidences, 0 when there is none.
C11_CrackSubsetOfResponse ==
    (rfOutcome # Null /\ rfOutcome[1].ok) =>
        LET response == rfOutcome[1].response
            result == rfOutcome[1].result[1]
            idx == CrackPositions(response)
            Kth(k) == CHOOSE i \in idx : Cardinality({j \in idx : j < i}) = k - 1
        IN  /\ Len(result.predictions) = Cardinality(idx)
            /\ \A k \in 1..Cardinality(idx) : result.predictions[k] = response[Kth(k)]
            /\ result.hasCracks = (idx # {})
            /\ result.totalCracks = Cardinality(idx)
            /\ idx = {} => result.confidence = 0
            /\ idx # {} => /\ \E i \in idx : result.confidence = response[i].confidence
                           /\ \A i \in idx : result.confidence >= response[i].confidence

\* A call resolved on a response that mixes a class with "CRACK" in capitals
\* and a class without it.
C11_Witness ==
    /\ rfOutcome # Null /\ rfOutcome[1].ok
    /\ \E i, j \in DOMAIN rfOutcome[1].response :
          /\ rfOutcome[1].response[i].class = <<"W", "a", "l", "l", "C", "R", "A", "C", "K">>
          /\ rfOutcome[1].response[j].class \notin CrackClasses
    /\ rfOutcome[1].result[1].totalCracks = 1

\* The step sends the POST of the call.
PostSent == rfCall.st # "posted" /\ rfCall'.st = "posted"

\* C12: the hook reports configured only while the stored config has a
\* non-empty apiKey and modelEndpoint, and every POST is sent with such a
\* config stored.
C12_ConfiguredOnlyWhenValid ==
    [][/\ rf'.isConfigured => ServiceIsConfigured(rf'.config)
       /\ PostSent => ServiceIsConfigured(rf.config)]_vars

\* C13: configure makes no request, and with an empty apiKey or modelEndpoint
\* it leaves an error for its caller.
C13_MissingFieldReported ==
    [][\A fields \in RoboflowFields :
          RfConfigure(fields[1], fields[2])
              => /\ rfCall' = rfCall
                 /\ (fields[1] = "" \/ fields[2] = "") => rfError' # NULL]_vars

\* The step settles a call with a rejection.
RejectedNow == rfOutcome' # rfOutcome /\ rfOutcome' # Null /\ ~rfOutcome'[1].ok

\* C17 as stated: a call makes one POST and no more; every rejection,
\* the one of the unconfigured hook included, leaves its message in the
\* hook's error and isDetecting false.
C17_RejectionRecorded ==
    [][/\ rfCall'.posts <= 1
       /\ RejectedNow => (rfError' = rfOutcome'[1].error /\ ~rfIsDetecting')]_vars

\* C17, amended: a call makes at most one POST; a rejection that comes from
\* the service (the image could not be read, the status is not 2xx, the
\* transport failed) leaves its message in the hook's error, and the
\* rejection of the unconfigured hook leaves the hook's error as it was and
\* sends nothing; either way the caller gets the error and isDetecting is
\* false once the call has settled; a call that resolved made exactly one POST.
C17_RejectionRecordedByService ==
    [][/\ rfCall'.posts <= 1
       /\ RejectedNow =>
             /\ ~rfIsDetecting'
             /\ IF rfOutcome'[1].error = "Roboflow not configured"
                THEN rfError' = rfError /\ rfCall'.posts = 0
                ELSE rfError' = rfOutcome'[1].error
       /\ (rfOutcome' # rfOutcome /\ rfOutcome' # Null /\ rfOutcome'[1].ok)
             => (rfCall'.posts = 1 /\ ~rfIsDetecting')]_vars

\* A call was rejected on a status that is not 2xx after its one POST.
C17_Witness ==
    /\ rfOutcome # Null
    /\ rfOutcome[1].error = "Roboflow API error"
    /\ rfCall.posts = 1
    /\ rfError = "Roboflow API error"

\* ===================================================== TensorFlowService.predict
MaxTensors == 12       \* predict is called only while numTensors + 7 stays within it

Thresholds == {0, 10, 20, 30, 40, 50, 60, 70, 80, 90, 100}   \* the slider: 0 to 1 by 0.1
PredictProbabilities == {0, 42, 50, 90, 100}   \* predictionData[0], in percent
\* How far the synchronous part of predict gets: fromPixels throws, the
\* forward pass throws, or the call reaches its await.
PredictStages == {"pixels throw", "predict throws", "awaits data"}

tensorRest == <<detectorRest, rf, besidesTensor>>

\* The tensors preprocessImage creates: fromPixels, resizeBilinear, toFloat,
\* tf.scalar, div, expandDims.  It disposes none and returns the last.
PreprocessTensors == 6

\* The finally of predict disposes imageTensor and predictionTensor when set;
\* alive is the count before it.
Finally(alive, imageSet, predictionSet) ==
    alive - (IF imageSet THEN 1 ELSE 0) - (IF predictionSet THEN 1 ELSE 0)

\* How a predict call settled for its caller.
PredictRejected(message) == <<[ok |-> FALSE, error |-> message, value |-> Null]>>
PredictResolved(value) == <<[ok |-> TRUE, error |-> NULL, value |-> <<value>>]>>

\* useTensorFlow.predict is called: the hook's and the service's guards, then
\* the service up to its await, or to its finally when it throws before.
TfPredict(stage) ==
    /\ tfCall.st = "idle"
    /\ numTensors + PreprocessTensors + 1 <= MaxTensors
    /\ IF ~tf.isLoaded \/ tf.model = NULL
       THEN /\ tfOutcome' = PredictRejected("Model not loaded")
            /\ tfCall' = [st |-> "idle", before |-> numTensors]
            /\ UNCHANGED numTensors
       ELSE CASE stage = "pixels throw" ->
                   /\ tfOutcome' = PredictRejected("fromPixels failed")
                   /\ tfCall' = [st |-> "idle", before |-> numTensors]
                   /\ numTensors' = Finally(numTensors, FALSE, FALSE)
              [] stage = "predict throws" ->
                   /\ tfOutcome' = PredictRejected("predict failed")
                   /\ tfCall' = [st |-> "idle", before |-> numTensors]
                   /\ numTensors' = Finally(numTensors + PreprocessTensors, TRUE, FALSE)
              [] stage = "awaits data" ->
                   /\ tfOutcome' = Null
                   /\ tfCall' = [st |-> "awaiting", before |-> numTensors]
                   /\ numTensors' = numTensors + PreprocessTensors + 1
    /\ UNCHANGED <<configThreshold, tensorRest>>

\* predictionTensor.data() resolves with probability p: the result is built
\* from the threshold of the stored config, then the finally runs.
TfDataResolve(p) ==
    /\ tfCall.st = "awaiting"
    /\ tfOutcome' = PredictResolved(ServicePredict(p, configThreshold))
    /\ tfCall' = [tfCall EXCEPT !.st = "idle"]
    /\ numTensors' = Finally(numTensors, TRUE, TRUE)
    /\ UNCHANGED <<configThreshold, tensorRest>>

\* predictionTensor.data() rejects: the catch rethrows, then the finally runs.
TfDataReject ==
    /\ tfCall.st = "awaiting"
    /\ tfOutcome' = PredictRejected("data failed")
    /\ tfCall' = [tfCall EXCEPT !.st = "idle"]
    /\ numTensors' = Finally(numTensors, TRUE, TRUE)
    /\ UNCHANGED <<configThreshold, tensorRest>>

\* The detector before its first model load, with any position of the
\* threshold slider.
PredictInit ==
    /\ DetectorInit
    /\ RoboflowInit
    /\ \E t \in Thresholds : TensorInit(t)
    /\ OverlayInit
    /\ UploadInit
    /\ StatsInit
    /\ TeachableInit
    /\ LoadUiInit
    /\ ChatInit

PredictNext ==
    \/ \E url \in ModelUrls : EditModelUrl(url)
    \/ \E ok \in BOOLEAN : LoadModelSettle(ok)
    \/ \E stage \in PredictStages : TfPredict(stage)
    \/ \E p \in PredictProbabilities : TfDataResolve(p)
    \/ TfDataReject

\* The in-browser backend: model loads and predict calls under a threshold.
PredictSpec == PredictInit /\ [][PredictNext]_vars

\* C14: a predict call that resolved with probability p under the configured
\* threshold t returns 'Crack' with confidence p when p > t, and 'No Crack'
\* with confidence 1 - p otherwise; t = 0 included.
C14_ThresholdDecidesLabel ==
    (tfOutcome # Null /\ tfOutcome[1].ok) =>
        LET value == tfOutcome[1].value[1]
            p == value.probability
        IN  IF p > configThreshold
            THEN value.classification = "Crack" /\ value.confidence = p
            ELSE value.classification = "No Crack" /\ value.confidence = 100 - p

\* C15: whenever the backend reports ready with no load in progress (the
\* service holds a model, the hook says isLoaded), a config is stored and the
\* model held is the artifact of that config.
C15_ReadyOnlyForLoadedConfig ==
    ((tf.isLoaded \/ tf.model # NULL) /\ ~tf.svcLoading)
        => (tf.config # NULL /\ tf.model = tf.config)

\* C16: once a predict call has settled, by resolving or by rejecting, as
\* many tensors are alive as when it began.
C16_NoTensorOutlivesPredict ==
    (tfCall.st = "idle" /\ tfOutcome # Null) => numTensors = tfCall.before

MaxAnimations == 2     \* animate loops alive at once

DetectionSets == {{}, {"a"}, {"b"}, {"a", "b"}}   \* values of the detections prop

overlayRest == <<detectorRest, rf, besidesOverlay>>

\* The cleanup of the effect: the observer is disconnected and
\* cancelAnimationFrame gets the id of the first frame the effect requested.
\* A loop whose first frame is pending ends; one whose first frame has fired
\* has requested frames under ids nobody kept, and goes on.
OverlayCleanup(as) ==
    LET kept == SelectSeq(as, LAMBDA a : ~(a.cur /\ a.first))
    IN  [i \in 1..Len(kept) |-> [kept[i] EXCEPT !.cur = FALSE]]

\* The parent renders the overlay with other props: the cleanup of the last
\* effect, then the effect, which past its guard draws once (updateCanvas) and
\* requests the first frame of a new animate loop closed over dets.
OverlayRender(dets, active) ==
    /\ <<dets, active>> # <<detections, overlayActive>>
    /\ detections' = dets
    /\ overlayActive' = active
    /\ IF active
       THEN /\ Len(OverlayCleanup(animations)) < MaxAnimations
            /\ animations' = Append(OverlayCleanup(animations),
                                    [dets |-> dets, first |-> TRUE, cur |-> TRUE])
            /\ overlayCanvas' = dets
       ELSE /\ animations' = OverlayCleanup(animations)
            /\ UNCHANGED overlayCanvas
    /\ UNCHANGED overlayRest

\* An animation frame: the callbacks run in the order they were requested;
\* each clears the canvas, draws the detections of its closure and requests
\* its next frame.  The canvas is left as the last callback drew it.
AnimationFrame ==
    /\ animations # <<>>
    /\ animations' = [i \in 1..Len(animations) |-> [animations[i] EXCEPT !.first = FALSE]]
    /\ overlayCanvas' = animations[Len(animations)].dets
    /\ UNCHANGED <<detections, overlayActive, overlayRest>>

\* The ResizeObserver of the current effect fires: updateCanvas of that effect.
VideoResize ==
    /\ overlayActive
    /\ overlayCanvas' = detections
    /\ UNCHANGED <<detections, overlayActive, animations, overlayRest>>

OverlayNext ==
    \/ \E dets \in DetectionSets, active \in BOOLEAN : OverlayRender(dets, active)
    \/ AnimationFrame
    \/ VideoResize

\* One CanvasOverlay instance under any sequence of prop changes and frames.
OverlaySpec == Init /\ [][OverlayNext]_vars

\* C19: at most one animate loop is alive, and every frame's paints draw the
\* current detection set of an active overlay: no loop paints the boxes of
\* an earlier set, or paints after the overlay was deactivated.
C19_NoStalePaint ==
    [][/\ Len(animations') <= 1
       /\ AnimationFrame =>
             \A i \in 1..Len(animations) :
                 overlayActive /\ animations[i].dets = detections]_vars

\* ============================================================== RoboflowPhotoUpload
Files == {1, 2}                \* images the user can pick
PredictionCounts == {0, 1, 2}  \* result.predictions.length of an analysis

uploadRest == <<detectorRest, rf, besidesUpload>>

\* The JSX condition under which the <canvas> is rendered in place of the
\* <img>: an image is selected and the stored result has predictions.
CanvasShown(image, result) == image # 0 /\ result # Null /\ result[1].n > 0

\* The render that follows a task.  A canvas that stays rendered keeps what is
\* drawn on it; a new one is blank; an image still loading for a canvas that
\* is gone will draw on nothing.  draw is drawing as the task left it.
UploadCommit(draw) ==
    LET shown == CanvasShown(selectedImage', detectionResult')
    IN  /\ canvasMounted' = shown
        /\ resultCanvas' = IF canvasMounted /\ shown THEN resultCanvas ELSE "blank"
        /\ drawing' = IF draw # Null /\ ~(canvasMounted /\ shown)
                      THEN <<[draw[1] EXCEPT !.canvas = FALSE]>>
                      ELSE draw

\* handleFileSelect with an image within the size limit; the drop zone and
\* the file input are rendered only while no image is selected.
HandleFileSelect(file) ==
    /\ selectedImage = 0
    /\ selectedImage' = file
    /\ reading' = reading \cup {file}
    /\ detectionResult' = Null
    /\ UNCHANGED <<imagePreview, isAnalyzing, analysis, uploadRest>>
    /\ UploadCommit(drawing)

\* reader.onload of the FileReader that reads file.
ReaderOnload(file) ==
    /\ file \in reading
    /\ reading' = reading \ {file}
    /\ imagePreview' = file
    /\ UNCHANGED <<selectedImage, detectionResult, isAnalyzing, analysis, uploadRest>>
    /\ UploadCommit(drawing)

\* The Analyze button (disabled while isAnalyzing): analyzeImage up to its
\* await, with the imagePreview of this render in its closure.
AnalyzeImage ==
    /\ selectedImage # 0
    /\ ~isAnalyzing
    /\ isAnalyzing' = TRUE
    /\ analysis' = <<[file |-> selectedImage, preview |-> imagePreview]>>
    /\ UNCHANGED <<selectedImage, imagePreview, detectionResult, reading, uploadRest>>
    /\ UploadCommit(drawing)

\* onDetect resolves with n predictions: setDetectionResult, then
\* drawSegmentationMasks only when n > 0, which reads canvasRef.current before
\* the render that follows and waits for the image to load.
AnalysisResolve(n) ==
    /\ analysis # Null
    /\ detectionResult' = <<[n |-> n, hasCracks |-> n > 0, file |-> analysis[1].file]>>
    /\ isAnalyzing' = FALSE
    /\ analysis' = Null
    /\ UNCHANGED <<selectedImage, imagePreview, reading, uploadRest>>
    /\ UploadCommit(IF n > 0 /\ analysis[1].preview # 0
                    THEN <<[n |-> n, canvas |-> canvasMounted]>>
                    ELSE drawing)

\* onDetect rejects: the toast, and the finally.
AnalysisReject ==
    /\ analysis # Null
    /\ isAnalyzing' = FALSE
    /\ analysis' = Null
    /\ UNCHANGED <<selectedImage, imagePreview, detectionResult, reading, uploadRest>>
    /\ UploadCommit(drawing)

\* img.onload of drawSegmentationMasks: nothing when the canvas it read was
\* null; else the image and one label per prediction, or the banner when the
\* result has no prediction.
ImageOnload ==
    /\ drawing # Null
    /\ drawing' = Null
    /\ resultCanvas' = IF ~drawing[1].canvas THEN resultCanvas
                       ELSE IF drawing[1].n = 0 THEN "banner"
                       ELSE "boxes"
    /\ UNCHANGED <<selectedImage, imagePreview, detectionResult, isAnalyzing, reading,
                   analysis, canvasMounted, uploadRest>>

\* clearImage (the button stays enabled during an analysis).
ClearImage ==
    /\ selectedImage # 0
    /\ selectedImage' = 0
    /\ imagePreview' = 0
    /\ detectionResult' = Null
    /\ UNCHANGED <<isAnalyzing, reading, analysis, uploadRest>>
    /\ UploadCommit(drawing)

UploadNext ==
    \/ \E file \in Files : HandleFileSelect(file)
    \/ \E file \in Files : ReaderOnload(file)
    \/ AnalyzeImage
    \/ \E n \in PredictionCounts : AnalysisResolve(n)
    \/ AnalysisReject
    \/ ImageOnload
    \/ ClearImage

\* The upload view with Roboflow configured.
UploadSpec == Init /\ [][UploadNext]_vars

\* C20: once an analysis of the selected and previewed image has returned a
\* result with no prediction and everything it started has finished, the
\* result canvas is rendered and shows the one banner.
C20_BannerOnEmptyResult ==
    (/\ selectedImage # 0 /\ imagePreview = selectedImage
     /\ detectionResult # Null /\ detectionResult[1].n = 0
     /\ analysis = Null /\ drawing = Null)
        => (canvasMounted /\ resultCanvas = "banner")

\* ========================================================= camera, load, statistics
\* C21: every stream the hook has acquired whose tracks have not been stopped
\* is the one streamRef holds, so that stopCamera can stop it.
C21_NoLeakedStream == live \subseteq {streamRef}

\* What handleStopCamera reads and writes, as one value.
StopView ==
    [live |-> live, streamRef |-> streamRef, srcObject |-> srcObject,
     isActive |-> isActive, isDetecting |-> isDetecting, prediction |-> prediction,
     isPaused |-> isPaused, stats |-> stats]

\* handleStopCamera as a function of that value: stopCamera (tracks of the
\* stream in streamRef stopped, streamRef and, when the video element exists,
\* its srcObject cleared, setIsActive(false)), then the three setters.
HandleStopCameraOn(v, mounted) ==
    [v EXCEPT !.live = IF v.streamRef # 0 THEN v.live \ {v.streamRef} ELSE v.live,
              !.streamRef = 0,
              !.srcObject = IF mounted THEN 0 ELSE v.srcObject,
              !.isActive = FALSE,
              !.isDetecting = FALSE,
              !.prediction = Null,
              !.isPaused = FALSE]

RECURSIVE SumConfidence(_, _)
SumConfidence(results, n) ==
    IF n = 0 THEN 0 ELSE SumConfidence(results, n - 1) + results[n].confidence

ModelJson == "model.json"
MetadataJson == "metadata.json"
BaseUrls ==
    {<<"host">>, <<"host", "/">>, <<"host", "/", ModelJson>>, <<"host", "/", "/">>}
\* config.metadataUrl: the empty string (as falsy as undefined) or given.
MetadataUrls == {<<>>, <<"other", "/", MetadataJson>>}
TeachableMachineConfigs ==
    {[modelUrl |-> m, metadataUrl |-> d] : m \in BaseUrls, d \in MetadataUrls}

teachableRest == <<detectorRest, rf, besidesTeachable>>

\* String.prototype.endsWith('/').
EndsWithSlash(url) == Len(url) > 0 /\ url[Len(url)] = "/"

\* const modelURL of loadModel.
ModelURL(config) ==
    IF EndsWithSlash(config.modelUrl)
    THEN config.modelUrl \o <<ModelJson>>
    ELSE config.modelUrl \o <<"/", ModelJson>>

\* const metadataURL of loadModel.
MetadataURL(config) ==
    IF config.metadataUrl # <<>>
    THEN config.metadataUrl
    ELSE IF EndsWithSlash(config.modelUrl)
         THEN config.modelUrl \o <<MetadataJson>>
         ELSE config.modelUrl \o <<"/", MetadataJson>>

\* How a loadModel call settled for its caller.
TmRejected(message) == <<[ok |-> FALSE, error |-> message]>>
TmResolved == <<[ok |-> TRUE, error |-> NULL]>>

\* A loadModel whose guard is inside the try: the finally of a rejected call
\* clears the flag of the load in progress.
TmLoadModelGuardInTry(config) ==
    /\ IF tmIsLoading
       THEN /\ tmOutcome' = TmRejected("Model is already loading")
            /\ tmIsLoading' = FALSE
            /\ UNCHANGED <<tmModel, tmCall>>
       ELSE /\ tmIsLoading' = TRUE
            /\ tmCall' = <<[config |-> config, modelURL |-> ModelURL(config),
                            metadataURL |-> MetadataURL(config)]>>
            /\ UNCHANGED <<tmModel, tmOutcome>>
    /\ UNCHANGED teachableRest

\* loadModel is called: it throws at its guard, or sets the flag, builds the
\* URLs and awaits tmImage.load.
TmLoadModel(config) ==
    /\ IF tmIsLoading
       THEN /\ tmOutcome' = TmRejected("Model is already loading")
            /\ UNCHANGED <<tmIsLoading, tmModel, tmCall>>
       ELSE /\ tmIsLoading' = TRUE
            /\ tmCall' = <<[config |-> config, modelURL |-> ModelURL(config),
                            metadataURL |-> MetadataURL(config)]>>
            /\ UNCHANGED <<tmModel, tmOutcome>>
    /\ UNCHANGED teachableRest

\* tmImage.load resolves: the model is stored, the finally clears the flag.
TmLoadResolve ==
    /\ tmCall # Null
    /\ tmModel' = <<[modelURL |-> tmCall[1].modelURL,
                     metadataURL |-> tmCall[1].metadataURL]>>
    /\ tmIsLoading' = FALSE
    /\ tmCall' = Null
    /\ tmOutcome' = TmResolved
    /\ UNCHANGED teachableRest

\* tmImage.load rejects: the catch rethrows, the finally clears the flag.
TmLoadReject ==
    /\ tmCall # Null
    /\ tmIsLoading' = FALSE
    /\ tmCall' = Null
    /\ tmOutcome' = TmRejected("load failed")
    /\ UNCHANGED <<tmModel, teachableRest>>

\* dispose().
TmDispose ==
    /\ tmModel' = Null
    /\ UNCHANGED <<tmIsLoading, tmCall, tmOutcome, teachableRest>>

TeachableNext ==
    \/ \E config \in TeachableMachineConfigs : TmLoadModel(config)
    \/ TmLoadResolve
    \/ TmLoadReject
    \/ TmDispose

TeachableSpec == Init /\ [][TeachableNext]_vars

\* The url ends with the file name.
EndsWith(url, name) == Len(url) > 0 /\ url[Len(url)] = name

\* The url without its trailing separators.
RECURSIVE TrimSlashes(_)
TrimSlashes(url) ==
    IF EndsWithSlash(url) THEN TrimSlashes(SubSeq(url, 1, Len(url) - 1)) ELSE url

\* C24: the model URL a load fetches is the given URL when that already ends
\* with model.json, and otherwise the base, one separator and model.json; a
\* metadataUrl that was supplied is fetched unchanged.
C24_ResolvesBaseUrl ==
    tmCall # Null =>
        LET config == tmCall[1].config
        IN  /\ tmCall[1].modelURL
                 = (IF EndsWith(config.modelUrl, ModelJson)
                    THEN config.modelUrl
                    ELSE TrimSlashes(config.modelUrl) \o <<"/", ModelJson>>)
            /\ config.metadataUrl # <<>> => tmCall[1].metadataURL = config.metadataUrl

\* ================================================================ model loads
\* The detector's TensorFlow configuration: the URL input, the backend tabs,
\* the panel and its Save button, and the loads they start.
LoadNext ==
    \/ \E value \in AIs : SelectAI(value)
    \/ \E url \in ModelUrls \cup {""} : EditModelUrl(url)
    \/ ToggleConfiguring
    \/ HandleConfigSave
    \/ \E ok \in BOOLEAN : LoadModelSettle(ok)

LoadSpec == Init /\ [][LoadNext]_vars

\* C25: when service.loadModel has rejected, the toast its caller shows is the
\* failure one, and the configuration panel is closed only by its trigger or
\* by a load that resolved.
C25_LoadFailureReported ==
    [][/\ loadOutcome' = "rejected" => loadToast' = "error"
       /\ (isConfiguring /\ ~isConfiguring')
             => (ToggleConfiguring \/ loadOutcome' = "resolved")]_vars

\* C26: while a load of the service is in progress the hook reports isLoading.
C26_HookAgreesWithService == tf.svcLoading => tf.isLoading

\* ------------------------------------------------------ the loading guards
\* The services under loads, with every load settling: the promise of
\* tf.loadLayersModel or tmImage.load resolves or rejects.
ServiceLoadNext ==
    \/ \E url \in ModelUrls \cup {""} : EditModelUrl(url)
    \/ \E ok \in BOOLEAN : LoadModelSettle(ok)
    \/ TeachableNext

ServiceLoadSpec ==
    /\ Init
    /\ [][ServiceLoadNext]_vars
    /\ WF_vars(\E ok \in BOOLEAN : LoadModelSettle(ok))
    /\ WF_vars(TmLoadResolve \/ TmLoadReject)

\* The flag of a service is set exactly while one of its loads is in flight.
FlagIsTheLoadInFlight ==
    /\ tmIsLoading <=> tmCall # Null
    /\ tf.svcLoading <=> tf.inflight # NULL

\* A loadModel call on a loading service rejects with 'Model is already
\* loading' and leaves the flag, the model and the load in flight alone; on
\* an idle service it is not rejected and starts a load.
GuardRejectsExactlyWhenLoading ==
    /\ (\E config \in TeachableMachineConfigs : TmLoadModel(config))
         => IF tmIsLoading
            THEN /\ tmOutcome' = TmRejected("Model is already loading")
                 /\ UNCHANGED <<tmIsLoading, tmModel, tmCall>>
            ELSE /\ tmOutcome' = tmOutcome
                 /\ tmIsLoading' /\ tmCall' # Null
    /\ (tf.svcLoading /\ tf'.inflight = tf.inflight)
         => /\ tf'.svcLoading
            /\ tf'.model = tf.model
            /\ tf'.config = tf.config

\* The step in which a load settles clears the flag.
SettleClearsFlag ==
    /\ (tmCall # Null /\ tmCall' = Null) => ~tmIsLoading'
    /\ (tf.inflight # NULL /\ tf'.inflight = NULL) => ~tf'.svcLoading

\* C27: the loading flag of a service is a single-load guard: a call is
\* rejected with 'Model is already loading' exactly when a load is in
\* progress, the rejected call leaves flag and model alone, the flag is
\* cleared when the load settles, and a set flag is always cleared later.
C27_SingleLoadGuard ==
    /\ []FlagIsTheLoadInFlight
    /\ [][GuardRejectsExactlyWhenLoading /\ SettleClearsFlag]_vars
    /\ (tmIsLoading ~> ~tmIsLoading)
    /\ (tf.svcLoading ~> ~tf.svcLoading)

\* A call was rejected at the guard of either service while a load is in flight.
C27_Witness ==
    /\ tmIsLoading /\ tmCall # Null
    /\ tmOutcome = TmRejected("Model is already loading")
    /\ tf.svcLoading /\ tf.inflight # NULL
    /\ loadOutcome = "rejected"

\* ================================================================ photo upload
\* C28: while an image is selected and shown, the result the upload view holds
\* is the result of an analysis of that image.
C28_ResultOfSelectedImage ==
    (detectionResult # Null /\ selectedImage # 0 /\ imagePreview = selectedImage)
        => detectionResult[1].file = selectedImage

\* ============================================================ camera recovery
\* A control that calls startCamera is rendered and enabled: the Start Camera
\* button, or the device select.
StartOffered ==
    \/ ~isActive /\ cameraError = NULL /\ IsCurrentModelReady(selectedAI, tf, rf)
    \/ devices > 1

\* The camera error is cleared only by a step that begins a startCamera call.
ErrorClearedOnlyByStart ==
    [][(cameraError # NULL /\ cameraError' = NULL) => started' = started + 1]_vars

\* C29: in every state where a start has failed (the error is set, the camera
\* is inactive) and no device enumeration or getUserMedia request is pending,
\* a control that makes a new startCamera attempt is offered.
C29_StartFailureRecoverable ==
    (cameraError # NULL /\ ~isActive /\ ~enumPending /\ requests = {}) => StartOffered

\* =============================================================== ChatInterface
MaxMessages == 4                       \* message ids handed out in a run
ApiKeys == {"key-a", "key-b"}
ModelTypes == {"openai", "custom"}
ModelConfigs ==
    {[apiEndpoint |-> "endpoint", apiKey |-> k, modelType |-> t, modelName |-> ""] :
        k \in ApiKeys, t \in ModelTypes}
Contents == {"hello"}                  \* what the user types
Replies == {"answer"}                  \* what callAI resolves with
Times == {1, 2}                        \* new Date().toISOString() at an export

chatRest == <<detectorRest, rf, besidesChat>>

\* SelectSeq with the test inlined: the messages whose id is not id.
RECURSIVE WithoutId(_, _)
WithoutId(msgs, id) ==
    IF msgs = <<>> THEN <<>>
    ELSE IF Head(msgs).id = id THEN WithoutId(Tail(msgs), id)
    ELSE <<Head(msgs)>> \o WithoutId(Tail(msgs), id)

\* A document that carries the configuration as it is.
ExportDocumentVerbatim(msgs, config, now) ==
    [messages |-> msgs, exportedAt |-> now, modelConfig |-> config]

\* chatData of exportChat: the messages, the time, and the configuration
\* with its apiKey overwritten.
ExportDocument(msgs, config, now) ==
    [messages |-> msgs,
     exportedAt |-> now,
     modelConfig |-> IF config # Null
                     THEN <<[config[1] EXCEPT !.apiKey = "[HIDDEN]"]>>
                     ELSE Null]

\* ModelSetup.handleSave with both fields filled in: onConfigSave(config).
ChatConfigSave(config) ==
    /\ modelConfig' = <<config>>
    /\ UNCHANGED <<messages, chatIsLoading, typingMessageId, chatPending, nextId,
                   exported, chatRest>>

\* handleSendMessage up to its await: the user message and the empty
\* assistant message are appended, callAI is in flight.
HandleSendMessage(content) ==
    /\ modelConfig # Null
    /\ nextId + 2 <= MaxMessages
    /\ messages' = messages \o <<[id |-> nextId + 1, content |-> content, role |-> "user"],
                                  [id |-> nextId + 2, content |-> "", role |-> "assistant"]>>
    /\ nextId' = nextId + 2
    /\ chatIsLoading' = TRUE
    /\ typingMessageId' = nextId + 2
    /\ chatPending' = chatPending \cup {nextId + 2}
    /\ UNCHANGED <<modelConfig, exported, chatRest>>

\* callAI resolves: the reply is written into the assistant message, if it is
\* still in the list (the word-by-word typing is taken as one step).
CallAIResolve(id, reply) ==
    /\ id \in chatPending
    /\ chatPending' = chatPending \ {id}
    /\ messages' = [i \in 1..Len(messages) |->
                        IF messages[i].id = id
                        THEN [messages[i] EXCEPT !.content = reply]
                        ELSE messages[i]]
    /\ typingMessageId' = 0
    /\ chatIsLoading' = FALSE
    /\ UNCHANGED <<modelConfig, nextId, exported, chatRest>>

\* callAI rejects: the assistant message is removed.
CallAIReject(id) ==
    /\ id \in chatPending
    /\ chatPending' = chatPending \ {id}
    /\ messages' = WithoutId(messages, id)
    /\ chatIsLoading' = FALSE
    /\ UNCHANGED <<modelConfig, typingMessageId, nextId, exported, chatRest>>

\* clearChat (the button is rendered while there are messages).
ClearChat ==
    /\ Len(messages) > 0
    /\ messages' = <<>>
    /\ UNCHANGED <<modelConfig, chatIsLoading, typingMessageId, chatPending, nextId,
                   exported, chatRest>>

\* exportChat at time now (the button is rendered while there are messages).
ExportChat(now) ==
    /\ Len(messages) > 0
    /\ exported' = <<ExportDocument(messages, modelConfig, now)>>
    /\ UNCHANGED <<messages, modelConfig, chatIsLoading, typingMessageId, chatPending,
                   nextId, chatRest>>

ChatNext ==
    \/ \E config \in ModelConfigs : ChatConfigSave(config)
    \/ \E content \in Contents : HandleSendMessage(content)
    \/ \E id \in chatPending, reply \in Replies : CallAIResolve(id, reply)
    \/ \E id \in chatPending : CallAIReject(id)
    \/ ClearChat
    \/ \E now \in Times : ExportChat(now)

ChatSpec == Init /\ [][ChatNext]_vars

\* The configuration with another API key.
WithApiKey(config, key) ==
    IF config # Null THEN <<[config[1] EXCEPT !.apiKey = key]>> ELSE Null

\* C30: the document an export writes is the one it would write, at the same
\* time and for the same messages, under any other API key, and the apiKey it
\* carries is "[HIDDEN]".
C30_ExportHidesApiKey ==
    [][(\E now \in Times : ExportChat(now))
         => /\ \A key \in ApiKeys :
                  exported' = <<ExportDocument(messages, WithApiKey(modelConfig, key),
                                               exported'[1].exportedAt)>>
            /\ exported'[1].modelConfig # Null
                 => exported'[1].modelConfig[1].apiKey = "[HIDDEN]"]_vars

\* A chat with messages was exported under a saved configuration.
C30_Witness ==
    /\ exported # Null
    /\ exported[1].modelConfig # Null
    /\ Len(exported[1].messages) > 1
====
